---- MODULE Spec2Model ----
(***************************************************************************)
(* Timesheet entries, timers and weekly approval of timesheet_app.         *)
(*                                                                         *)
(* Time is counted in seconds since midnight of day 0; a calendar date is  *)
(* a day number.  A datetime is date * 86400 + seconds of the day.  NULL   *)
(* stands for a database NULL / Python None in a nullable column.          *)
(***************************************************************************)
EXTENDS Integers, FiniteSets, Sequences, TLC

VARIABLES entries, nextId, now, last, weeks, pc, projects, nextProject, report

vars == <<entries, nextId, now, last, weeks, pc, projects, nextProject, report>>

\* the Project table and its id sequence
catalog == <<projects, nextProject>>

(***************************************************************************)
(* Bounds of the model.                                                    *)
(***************************************************************************)
MaxId == 2
MaxDate == 1
MaxTod == 2
MaxBreak == 1
MaxClockDay == 0
MaxWeek == 1
MaxProc == 2
MaxProject == 2

NULL == 0 - 1

\* None in a nullable text or user column
None == "<None>"

Users == {"emp", "mgr"}

Role(u) == IF u = "mgr" THEN "manager" ELSE "employee"

Dates == 0..MaxDate

\* times of day a form or the clock can show, in seconds after midnight:
\* 00:00:00, 00:00:30, 00:02:00, ...
TimesOfDay == {30 * k * k : k \in 0..MaxTod}

Breaks == 0..MaxBreak

Ids == 1..MaxId

\* datetime.combine(work_date, t)
Combine(d, t) == d * 86400 + t

\* timezone.localdate()
LocalDate(dt) == dt \div 86400

\* the instants the clock shows
ClockInstants == {Combine(d, t) : d \in 0..MaxClockDay, t \in TimesOfDay}

\* int(delta.total_seconds() / 60): truncation toward zero
IntMinutes(secs) == IF secs >= 0 THEN secs \div 60 ELSE 0 - ((0 - secs) \div 60)

\* int(delta.total_seconds() // 60): floor
FloorMinutes(secs) == secs \div 60

\* a row of TimesheetEntry; project is null and billable is True by default
TimesheetEntry(id, u, wd, st, et, br, dur) ==
    [id |-> id, user |-> u, work_date |-> wd, start_time |-> st,
     end_time |-> et, break_minutes |-> br, duration_minutes |-> dur,
     project |-> NULL, billable |-> TRUE]

\* the lookup by id alone
LookupAnyUser(store, u, id) == {e \in store : e.id = id}

\* get_object_or_404(TimesheetEntry, pk=entry_id, user=request.user)
Lookup(store, u, id) == {e \in store : e.id = id /\ e.user = u}

(***************************************************************************)
(* TimesheetEntryForm.clean: the form-level check on the submitted fields. *)
(* pk is the id of the entry being edited, NULL for a new one; st and et   *)
(* are the submitted times of day, NULL when left blank.                   *)
(***************************************************************************)
FormEnd(e, clock) ==
    IF e.end_time = NULL THEN clock + 365 * 86400 ELSE e.end_time

FormOverlaps(store, clock, u, pk, wd, st, et) ==
    \E e \in store :
        /\ e.user = u
        /\ e.work_date = wd
        /\ e.id # pk
        /\ e.start_time # NULL
        /\ ~(Combine(wd, et) <= e.start_time \/ Combine(wd, st) >= FormEnd(e, clock))

FormClean(store, clock, u, pk, wd, st, et) ==
    IF st = NULL \/ et = NULL THEN {}
    ELSE IF Combine(wd, et) <= Combine(wd, st) THEN {"InvalidRange"}
    ELSE IF FormOverlaps(store, clock, u, pk, wd, st, et) THEN {"OverlapConflict"}
    ELSE {}

(***************************************************************************)
(* TimesheetEntry.clean: the model-level check, run by the ModelForm on    *)
(* the instance it constructed (the submitted work_date and break_minutes, *)
(* but the start_time and end_time the instance already had).              *)
(***************************************************************************)
\* one iteration of the loop over the user's other entries of the day
LoopStep(inst, e) ==
    IF e.start_time = NULL THEN "TypeError"
    ELSE IF inst.end_time <= e.start_time THEN "pass"
    ELSE IF e.end_time = NULL THEN "TypeError"
    ELSE IF inst.start_time >= e.end_time THEN "pass"
    ELSE "OverlapConflict"

\* The loop stops at the first entry, in the order of Meta.ordering
\* (work_date, start_time), that raises.  Where NULL start times sort and
\* how ties are broken is the database's choice.
LoopOutcomes(store, inst) ==
    LET qs == {e \in store : e.user = inst.user /\ e.work_date = inst.work_date
                              /\ e.id # inst.id}
        raising == {e \in qs : LoopStep(inst, e) # "pass"}
        nulls == {e \in raising : e.start_time = NULL}
        dated == raising \ nulls
        first == {e \in dated : \A f \in dated : f.start_time >= e.start_time}
    IN  IF raising = {} THEN {"pass"}
        ELSE {LoopStep(inst, e) : e \in nulls \cup first}

ModelClean(store, inst) ==
    IF inst.start_time = NULL \/ inst.end_time = NULL THEN {"skip"}
    ELSE IF inst.end_time <= inst.start_time THEN {"InvalidRange"}
    ELSE IF FloorMinutes(inst.end_time - inst.start_time) - inst.break_minutes <= 0
         THEN {"NonPositiveDuration"}
    ELSE LoopOutcomes(store, inst)

(***************************************************************************)
(* add_edit_entry / manager_add_edit_entry (POST).  A result is the set of *)
(* errors the request ends with (empty on success) and the stored entries  *)
(* it leaves.                                                              *)
(***************************************************************************)
Result(errs, store) == [errors |-> errs, store |-> store]

\* construct_instance: the submitted model fields applied to the instance
Construct(store, u, pk, wd, br) ==
    IF pk = NULL THEN TimesheetEntry(NULL, u, wd, NULL, NULL, br, 0)
    ELSE LET old == CHOOSE e \in Lookup(store, u, pk) : TRUE
         IN  [old EXCEPT !.work_date = wd, !.break_minutes = br]

\* TimesheetEntry.clean stores the net minutes on the instance when it passes
Cleaned(inst, outcome) ==
    IF outcome = "pass"
    THEN [inst EXCEPT !.duration_minutes =
              FloorMinutes(inst.end_time - inst.start_time) - inst.break_minutes]
    ELSE inst

\* the view composes the datetimes from work_date and the submitted times
\* and recomputes duration_minutes when both are known
Compose(inst, st, et) ==
    LET s == IF st # NULL THEN Combine(inst.work_date, st) ELSE inst.start_time
        e == IF et # NULL THEN Combine(inst.work_date, et) ELSE inst.end_time
        d == IF s # NULL /\ e # NULL THEN IntMinutes(e - s) ELSE inst.duration_minutes
    IN  [inst EXCEPT !.start_time = s, !.end_time = e, !.duration_minutes = d]

\* obj.save(): duration_minutes is a PositiveIntegerField, the database
\* refuses a negative value
SaveEntry(store, nid, obj) ==
    IF obj.duration_minutes < 0 THEN Result({"IntegrityError"}, store)
    ELSE IF obj.id = NULL THEN Result({}, store \cup {[obj EXCEPT !.id = nid]})
    ELSE Result({}, {e \in store : e.id # obj.id} \cup {obj})

ValidationErrors == {"InvalidRange", "NonPositiveDuration", "OverlapConflict"}

AddEditResults(store, clock, nid, allowed, u, pk, wd, st, et, br) ==
    IF Role(u) # allowed THEN {Result({"Forbidden"}, store)}
    ELSE IF pk # NULL /\ Lookup(store, u, pk) = {} THEN {Result({"NotFound"}, store)}
    ELSE LET formErrs == FormClean(store, clock, u, pk, wd, st, et)
             inst == Construct(store, u, pk, wd, br)
         IN  {IF m = "TypeError" THEN Result({"TypeError"}, store)
              ELSE IF formErrs \cup ({m} \cap ValidationErrors) # {}
                   THEN Result(formErrs \cup ({m} \cap ValidationErrors), store)
              ELSE SaveEntry(store, nid, Compose(Cleaned(inst, m), st, et))
              : m \in ModelClean(store, inst)}

(***************************************************************************)
(* start_time_entry / manager_start_time_entry (POST).                     *)
(***************************************************************************)
Running(store, u) == {e \in store : e.user = u /\ e.end_time = NULL}

\* the filter with the interval's ends left out
OverlappingInside(store, clock, u) ==
    \E e \in store :
        /\ e.user = u
        /\ e.work_date = LocalDate(clock)
        /\ e.start_time # NULL /\ e.start_time < clock
        /\ e.end_time # NULL /\ e.end_time > clock

\* filter(user, work_date=today, start_time__lte=now, end_time__gte=now)
OverlappingToday(store, clock, u) ==
    \E e \in store :
        /\ e.user = u
        /\ e.work_date = LocalDate(clock)
        /\ e.start_time # NULL /\ e.start_time <= clock
        /\ e.end_time # NULL /\ e.end_time >= clock

\* the insert with end_time filled in as well
CreateTimerClosed(store, clock, nid, u) ==
    Result({}, store \cup {TimesheetEntry(nid, u, LocalDate(clock), clock, clock, 0, 0)})

CreateTimer(store, clock, nid, u) ==
    Result({}, store \cup {TimesheetEntry(nid, u, LocalDate(clock), clock, NULL, 0, 0)})

\* start_time_entry without the running-timer query
StartResultUnguarded(store, clock, nid, u) ==
    IF OverlappingToday(store, clock, u) THEN Result({"OverlappingToday"}, store)
    ELSE CreateTimer(store, clock, nid, u)

StartResult(store, clock, nid, u) ==
    IF Running(store, u) # {} THEN Result({"TimerAlreadyRunning"}, store)
    ELSE IF OverlappingToday(store, clock, u) THEN Result({"OverlappingToday"}, store)
    ELSE CreateTimer(store, clock, nid, u)

ManagerStartResult(store, clock, nid, u) ==
    IF Role(u) # "manager" THEN Result({"Forbidden"}, store)
    ELSE IF Running(store, u) # {} THEN Result({"TimerAlreadyRunning"}, store)
    ELSE CreateTimer(store, clock, nid, u)

(***************************************************************************)
(* stop_time_entry / manager_stop_time_entry.                              *)
(***************************************************************************)
\* the stop without the already-stopped test
StopEntryAgain(store, clock, entry) ==
    IF entry.start_time = NULL THEN Result({"TypeError"}, store)
    ELSE SaveEntry(store, NULL,
             [entry EXCEPT !.end_time = clock,
                           !.duration_minutes = IntMinutes(clock - entry.start_time)])

StopEntry(store, clock, entry) ==
    IF entry.end_time # NULL THEN Result({"AlreadyStopped"}, store)
    ELSE IF entry.start_time = NULL THEN Result({"TypeError"}, store)
    ELSE SaveEntry(store, NULL,
             [entry EXCEPT !.end_time = clock,
                           !.duration_minutes = IntMinutes(clock - entry.start_time)])

StopResult(store, clock, u, id) ==
    IF Lookup(store, u, id) = {} THEN Result({"NotFound"}, store)
    ELSE StopEntry(store, clock, CHOOSE e \in Lookup(store, u, id) : TRUE)

ManagerStopResult(store, clock, u, id) ==
    IF Role(u) # "manager" THEN Result({"Forbidden"}, store)
    ELSE StopResult(store, clock, u, id)

(***************************************************************************)
(* delete_entry / manager_delete_entry (POST).                             *)
(***************************************************************************)
DeleteResult(store, allowed, u, id) ==
    IF Role(u) # allowed THEN Result({"Forbidden"}, store)
    ELSE IF Lookup(store, u, id) = {} THEN Result({"NotFound"}, store)
    ELSE Result({}, {e \in store : e.id # id})

(***************************************************************************)
(* WeekSummary: my_timesheet / manager_my_timesheet (get_or_create),       *)
(* submit_week and week_detail (approve / reject).  Day 0 is a Monday.     *)
(***************************************************************************)
\* date.weekday(): 0 = Monday
Weekday(d) == d % 7

\* the seven days from today on
seven_days_from(today) == <<today, today + 6>>

\* get_current_week_bounds(today)
get_current_week_bounds(today) ==
    LET monday == today - Weekday(today) IN <<monday, monday + 6>>

WeekSummary(id, u, ws) ==
    [id |-> id, user |-> u, week_start |-> ws, status |-> "draft",
     approver |-> None, submitted_at |-> NULL, approved_at |-> NULL,
     audit_note |-> "", manager_comment |-> None]

WeekOf(ws, u, weekStart) == {w \in ws : w.user = u /\ w.week_start = weekStart}

\* an update_or_create: the summary found is put back to draft
GetOrCreateReset(ws, u, weekStart) ==
    IF WeekOf(ws, u, weekStart) # {}
    THEN {IF w \in WeekOf(ws, u, weekStart) THEN [w EXCEPT !.status = "draft"] ELSE w
          : w \in ws}
    ELSE ws \cup {WeekSummary(Cardinality(ws) + 1, u, weekStart)}

\* WeekSummary.objects.get_or_create(user=u, week_start=weekStart)
GetOrCreate(ws, u, weekStart) ==
    IF WeekOf(ws, u, weekStart) # {} THEN ws
    ELSE ws \cup {WeekSummary(Cardinality(ws) + 1, u, weekStart)}

\* my_timesheet (employee) shows the current week
MyTimesheetResult(ws, clock, u) ==
    IF Role(u) # "employee" THEN Result({"Forbidden"}, ws)
    ELSE Result({}, GetOrCreate(ws, u, get_current_week_bounds(LocalDate(clock))[1]))

\* manager_my_timesheet shows the week of view_date, or the current week
ManagerMyTimesheetResult(ws, clock, u, viewDate) ==
    IF Role(u) # "manager" THEN Result({"Forbidden"}, ws)
    ELSE LET day == IF viewDate = NULL THEN LocalDate(clock) ELSE viewDate
         IN  Result({}, GetOrCreate(ws, u, get_current_week_bounds(day)[1]))

\* submit_week filtering on the user alone: every week of the user is submitted
SubmitResultAllWeeks(ws, clock, u) ==
    IF Role(u) # "employee" THEN Result({"Forbidden"}, ws)
    ELSE LET got == GetOrCreate(ws, u, get_current_week_bounds(LocalDate(clock))[1])
         IN  Result({}, {IF w.user = u
                         THEN [w EXCEPT !.status = "submitted", !.submitted_at = clock]
                         ELSE w : w \in got})

\* submit_week
SubmitResult(ws, clock, u) ==
    IF Role(u) # "employee" THEN Result({"Forbidden"}, ws)
    ELSE LET weekStart == get_current_week_bounds(LocalDate(clock))[1]
             got == GetOrCreate(ws, u, weekStart)
             week == CHOOSE w \in WeekOf(got, u, weekStart) : TRUE
         IN  Result({}, (got \ {week}) \cup
                        {[week EXCEPT !.status = "submitted", !.submitted_at = clock]})

\* week_detail without role_required('manager')
WeekDetailResultAnyRole(ws, clock, m, weekId, action, note, comment) ==
    IF {w \in ws : w.id = weekId} = {} THEN Result({"NotFound"}, ws)
    ELSE LET week == CHOOSE w \in ws : w.id = weekId
         IN  Result({}, (ws \ {week}) \cup
                  {[week EXCEPT
                      !.status = IF action = "approve" THEN "approved" ELSE "rejected",
                      !.approver = m, !.approved_at = clock,
                      !.audit_note = note, !.manager_comment = comment]})

\* week_detail (POST) with action approve or reject
WeekDetailResult(ws, clock, m, weekId, action, note, comment) ==
    IF Role(m) # "manager" THEN Result({"Forbidden"}, ws)
    ELSE IF {w \in ws : w.id = weekId} = {} THEN Result({"NotFound"}, ws)
    ELSE LET week == CHOOSE w \in ws : w.id = weekId
         IN  IF action \in {"approve", "reject"}
             THEN Result({}, (ws \ {week}) \cup
                      {[week EXCEPT
                          !.status = IF action = "approve" THEN "approved" ELSE "rejected",
                          !.approver = m, !.approved_at = clock,
                          !.audit_note = note, !.manager_comment = comment]})
             ELSE Result({}, ws)

(***************************************************************************)
(* Hour figures.  A figure is a number of hours rounded to two decimals,   *)
(* kept as an integer count of hundredths of an hour.                      *)
(***************************************************************************)
\* round(n / d) for n >= 0, d > 0: the nearest integer, a tie going to the
\* even neighbour
RoundDiv(n, d) ==
    LET q == n \div d
        r == n % d
    IN  IF 2 * r < d THEN q
        ELSE IF 2 * r > d THEN q + 1
        ELSE IF q % 2 = 0 THEN q ELSE q + 1

\* round(minutes / 60.0, 2)
Hours(minutes) == RoundDiv(100 * minutes, 60)

\* Sum('duration_minutes') over a set of entries, 0 for the empty set
RECURSIVE SumMinutes(_)
SumMinutes(S) ==
    IF S = {} THEN 0
    ELSE LET e == CHOOSE x \in S : TRUE
         IN  e.duration_minutes + SumMinutes(S \ {e})

\* the filter on the dates alone
WeekEntriesAnyUser(store, u, day) ==
    LET bounds == get_current_week_bounds(day)
    IN  {e \in store : bounds[1] <= e.work_date /\ e.work_date <= bounds[2]}

\* filter(user=request.user, work_date__range=(week_start, week_end))
WeekEntries(store, u, day) ==
    LET bounds == get_current_week_bounds(day)
    IN  {e \in store : e.user = u /\ bounds[1] <= e.work_date /\ e.work_date <= bounds[2]}

\* total_hours of my_timesheet, manager_my_timesheet, weekly_summary_fragment
WeekReport(store, day, u) ==
    [view |-> "week", total_hours |-> Hours(SumMinutes(WeekEntries(store, u, day)))]

(***************************************************************************)
(* The requests, one action per handler.  A request that the role check    *)
(* or get_object_or_404 turns away changes nothing and is not a step.      *)
(* last records the request just served: the handler, the entry it named   *)
(* (for a new entry the id it was given) and the errors it ended with.     *)
(***************************************************************************)
Request(op, id, errs) == [op |-> op, id |-> id, errors |-> errs]

\* the figures of the latest response; a response without figures shows none
NoReport == [view |-> "none"]

NoRequest == Request("none", NULL, {})

InitEntries ==
    /\ entries = {}
    /\ nextId = 1
    /\ now = NULL
    /\ last = NoRequest

\* timezone.now() never shows the same instant twice: a request that reads
\* the clock is served at a reading later than all readings before it
Readings == {t \in ClockInstants : now = NULL \/ t > now}

Serve(op, id, clock, r) ==
    /\ r.errors \cap {"Forbidden", "NotFound"} = {}
    /\ entries' = r.store
    /\ nextId' = IF id = NULL /\ r.errors = {} THEN nextId + 1 ELSE nextId
    /\ last' = Request(op, IF id = NULL /\ r.errors = {} THEN nextId ELSE id, r.errors)
    /\ now' = clock
    /\ report' = NoReport
    /\ UNCHANGED <<weeks, pc, catalog>>

AddEdit(op, allowed, users, dates, breaks) ==
    \E u \in users, pk \in Ids \cup {NULL} :
        /\ pk = NULL => nextId <= MaxId
        /\ Role(u) = allowed
        /\ pk # NULL => Lookup(entries, u, pk) # {}
        /\ \E wd \in dates, st \in TimesOfDay \cup {NULL},
              et \in TimesOfDay \cup {NULL}, br \in breaks :
              \E r \in AddEditResults(entries, now, nextId, allowed, u, pk,
                                      wd, st, et, br) :
                 Serve(op, pk, now, r)

AddEditEntry(users, dates, breaks) ==
    AddEdit("add_edit_entry", "employee", users, dates, breaks)

ManagerAddEditEntry(users, dates, breaks) ==
    AddEdit("manager_add_edit_entry", "manager", users, dates, breaks)

StartTimeEntry(users) ==
    \E u \in users, t \in Readings :
        /\ nextId <= MaxId
        /\ Serve("start_time_entry", NULL, t, StartResult(entries, t, nextId, u))

ManagerStartTimeEntry(users) ==
    \E u \in users, t \in Readings :
        /\ nextId <= MaxId
        /\ Serve("manager_start_time_entry", NULL, t,
                 ManagerStartResult(entries, t, nextId, u))

StopTimeEntry(users) ==
    \E u \in users, id \in Ids, t \in Readings :
        Serve("stop_time_entry", id, t, StopResult(entries, t, u, id))

ManagerStopTimeEntry(users) ==
    \E u \in users, id \in Ids, t \in Readings :
        Serve("manager_stop_time_entry", id, t, ManagerStopResult(entries, t, u, id))

DeleteEntry(users) ==
    \E u \in users, id \in Ids :
        Serve("delete_entry", id, now, DeleteResult(entries, "employee", u, id))

ManagerDeleteEntry(users) ==
    \E u \in users, id \in Ids :
        Serve("manager_delete_entry", id, now, DeleteResult(entries, "manager", u, id))

Idle == [at |-> "idle", user |-> None, handler |-> None]

Procs == 1..MaxProc

InitProjects ==
    /\ projects = {}
    /\ nextProject = 1
    /\ report = NoReport

Init ==
    /\ InitEntries
    /\ weeks = {}
    /\ pc = [p \in Procs |-> Idle]
    /\ InitProjects

\* both users, entries of day 0, with breaks
Next ==
    \/ AddEditEntry(Users, {0}, Breaks)
    \/ ManagerAddEditEntry(Users, {0}, Breaks)
    \/ StartTimeEntry(Users)
    \/ ManagerStartTimeEntry(Users)
    \/ StopTimeEntry(Users)
    \/ ManagerStopTimeEntry(Users)
    \/ DeleteEntry(Users)
    \/ ManagerDeleteEntry(Users)

Spec == Init /\ [][Next]_vars

\* one employee, entries on several dates, without breaks
NextDates ==
    \/ AddEditEntry({"emp"}, Dates, {0})
    \/ StartTimeEntry({"emp"})
    \/ StopTimeEntry({"emp"})
    \/ DeleteEntry({"emp"})

SpecDates == Init /\ [][NextDates]_vars

(***************************************************************************)
(* The weekly approval requests.                                           *)
(***************************************************************************)
\* the instants the clock shows while weeks go by: day w of week w
WeekClock == {Combine(7 * w + w, 0) : w \in 0..MaxWeek}

Notes == {"n1"}

\* time passes between the requests
TickWeek ==
    /\ \E t \in WeekClock : t > now /\ now' = t
    /\ UNCHANGED <<entries, nextId, last, weeks, pc, catalog, report>>

ServeWeek(op, id, r) ==
    /\ r.errors \cap {"Forbidden", "NotFound"} = {}
    /\ weeks' = r.store
    /\ last' = Request(op, id, r.errors)
    /\ UNCHANGED <<entries, nextId, now, pc, catalog>>

MyTimesheet ==
    \E u \in Users :
        /\ ServeWeek("my_timesheet", NULL, MyTimesheetResult(weeks, now, u))
        /\ report' = WeekReport(entries, LocalDate(now), u)

ManagerMyTimesheet ==
    \E u \in Users, vd \in {LocalDate(t) : t \in WeekClock} \cup {NULL} :
        /\ ServeWeek("manager_my_timesheet", NULL,
                     ManagerMyTimesheetResult(weeks, now, u, vd))
        /\ report' = WeekReport(entries, IF vd = NULL THEN LocalDate(now) ELSE vd, u)

SubmitWeek ==
    /\ \E u \in Users : ServeWeek("submit_week", NULL, SubmitResult(weeks, now, u))
    /\ report' = NoReport

WeekDetail ==
    /\ \E m \in Users, id \in 1..Cardinality(weeks), action \in {"approve", "reject"},
          note \in Notes, comment \in Notes :
           ServeWeek(action, id,
                     WeekDetailResult(weeks, now, m, id, action, note, comment))
    /\ report' = NoReport

NextWeek ==
    \/ TickWeek
    \/ MyTimesheet
    \/ ManagerMyTimesheet
    \/ SubmitWeek
    \/ WeekDetail

\* the first request arrives on the Monday of week 0
InitWeek ==
    /\ entries = {}
    /\ nextId = 1
    /\ now = 0
    /\ last = NoRequest
    /\ weeks = {}
    /\ pc = [p \in Procs |-> Idle]
    /\ InitProjects

SpecWeek == InitWeek /\ [][NextWeek]_vars

(***************************************************************************)
(* Concurrent start-timer requests.  start_time_entry and                  *)
(* manager_start_time_entry run their queries and their insert as separate *)
(* database statements, outside any transaction, so the statements of two  *)
(* requests interleave.  pc[p] is where worker p stands in its request.    *)
(***************************************************************************)
At(p, at) == [pc EXCEPT ![p].at = at]

Respond(p, op, id, errs) ==
    /\ pc' = [pc EXCEPT ![p] = Idle]
    /\ last' = Request(op, id, errs)
    /\ report' = NoReport

\* a start request arrives at an idle worker
Arrive(p) ==
    /\ pc[p].at = "idle"
    /\ \E u \in Users, h \in {"start_time_entry", "manager_start_time_entry"} :
          /\ h = "manager_start_time_entry" => Role(u) = "manager"
          /\ pc' = [pc EXCEPT ![p] = [at |-> "running", user |-> u, handler |-> h]]
    /\ UNCHANGED <<entries, nextId, now, last, weeks, catalog, report>>

\* overlapping = filter(user=user, end_time__isnull=True).exists()
CheckRunning(p) ==
    /\ pc[p].at = "running"
    /\ IF Running(entries, pc[p].user) # {}
       THEN Respond(p, pc[p].handler, NULL, {"TimerAlreadyRunning"})
       ELSE /\ pc' = At(p, IF pc[p].handler = "start_time_entry"
                            THEN "today" ELSE "create")
            /\ UNCHANGED <<last, report>>
    /\ UNCHANGED <<entries, nextId, now, weeks, catalog>>

\* overlapping_today = filter(... start_time__lte=now, end_time__gte=now).exists()
CheckToday(p) ==
    /\ pc[p].at = "today"
    /\ \E t \in Readings :
          /\ now' = t
          /\ IF OverlappingToday(entries, t, pc[p].user)
             THEN Respond(p, pc[p].handler, NULL, {"OverlappingToday"})
             ELSE pc' = At(p, "create") /\ UNCHANGED <<last, report>>
    /\ UNCHANGED <<entries, nextId, weeks, catalog>>

\* TimesheetEntry.objects.create(...)
Create(p) ==
    /\ pc[p].at = "create"
    /\ nextId <= MaxId
    /\ \E t \in Readings :
          /\ now' = t
          /\ entries' = CreateTimer(entries, t, nextId, pc[p].user).store
    /\ nextId' = nextId + 1
    /\ Respond(p, pc[p].handler, nextId, {})
    /\ UNCHANGED <<weeks, catalog>>

\* stop_time_entry, served in one step
StopRace ==
    /\ \E u \in Users, id \in Ids, t \in Readings :
          LET r == StopResult(entries, t, u, id)
          IN  /\ r.errors \cap {"Forbidden", "NotFound"} = {}
              /\ entries' = r.store
              /\ last' = Request("stop_time_entry", id, r.errors)
              /\ now' = t
    /\ report' = NoReport
    /\ UNCHANGED <<nextId, weeks, pc, catalog>>

NextRace ==
    \/ StopRace
    \/ \E p \in Procs : Arrive(p)
    \/ \E p \in Procs : CheckRunning(p)
    \/ \E p \in Procs : CheckToday(p)
    \/ \E p \in Procs : Create(p)

SpecRace == Init /\ [][NextRace]_vars

(***************************************************************************)
(* Concurrent week requests.  get_or_create is a SELECT followed, when no  *)
(* row was found, by an INSERT; the table's unique (user, week_start)      *)
(* constraint refuses a second row, and get_or_create then reads the row   *)
(* that is there.  submit_week saves the row it holds afterwards.          *)
(***************************************************************************)
\* the Monday of the current week
Monday == get_current_week_bounds(LocalDate(now))[1]

WeekHandlers == {"my_timesheet", "manager_my_timesheet", "submit_week"}

HandlerRole(h) == IF h = "manager_my_timesheet" THEN "manager" ELSE "employee"

\* a table without the unique constraint takes the row
InsertRowUnconstrained(ws, u, weekStart) ==
    ws \cup {WeekSummary(Cardinality(ws) + 1, u, weekStart)}

\* INSERT of a draft row under unique_together (user, week_start): refused
\* (IntegrityError) when the pair is already there
InsertRow(ws, u, weekStart) ==
    IF WeekOf(ws, u, weekStart) # {} THEN ws
    ELSE ws \cup {WeekSummary(Cardinality(ws) + 1, u, weekStart)}

\* a week request arrives at an idle worker
ArriveWeek(p) ==
    /\ pc[p].at = "idle"
    /\ \E u \in Users, h \in WeekHandlers :
          /\ Role(u) = HandlerRole(h)
          /\ pc' = [pc EXCEPT ![p] = [at |-> "get", user |-> u, handler |-> h,
                                      row |-> None]]
    /\ UNCHANGED <<entries, nextId, now, last, weeks, catalog, report>>

\* get_or_create: self.get(user=..., week_start=...)
GetWeek(p) ==
    /\ pc[p].at = "get"
    /\ LET found == WeekOf(weeks, pc[p].user, Monday)
       IN  IF found = {}
           THEN pc' = [pc EXCEPT ![p].at = "insert"]
           ELSE \E w \in found : pc' = [pc EXCEPT ![p].at = "have", ![p].row = w]
    /\ UNCHANGED <<entries, nextId, now, last, weeks, catalog, report>>

\* get_or_create: self.create(...), and on IntegrityError self.get(...) again
InsertWeek(p) ==
    /\ pc[p].at = "insert"
    /\ weeks' = InsertRow(weeks, pc[p].user, Monday)
    /\ \E w \in WeekOf(weeks', pc[p].user, Monday) :
          /\ weeks' # weeks => w \notin weeks
          /\ pc' = [pc EXCEPT ![p].at = "have", ![p].row = w]
    /\ UNCHANGED <<entries, nextId, now, last, catalog, report>>

\* the rest of the handler: submit_week saves the row it holds with status
\* submitted; the views only show it
FinishWeek(p) ==
    /\ pc[p].at = "have"
    /\ IF pc[p].handler = "submit_week"
       THEN weeks' = {w \in weeks : w.id # pc[p].row.id} \cup
                     {[pc[p].row EXCEPT !.status = "submitted", !.submitted_at = now]}
       ELSE UNCHANGED weeks
    /\ pc' = [pc EXCEPT ![p] = Idle]
    /\ last' = Request(pc[p].handler, NULL, {})
    /\ report' = IF pc[p].handler = "submit_week" THEN NoReport
                  ELSE WeekReport(entries, LocalDate(now), pc[p].user)
    /\ UNCHANGED <<entries, nextId, now, catalog>>

NextWeekRace ==
    \/ \E p \in Procs : ArriveWeek(p)
    \/ \E p \in Procs : GetWeek(p)
    \/ \E p \in Procs : InsertWeek(p)
    \/ \E p \in Procs : FinishWeek(p)
    \/ WeekDetail

SpecWeekRace == InitWeek /\ [][NextWeekRace]_vars

(***************************************************************************)
(* Projects.  An entry's project column holds the id of a Project row or   *)
(* NULL.  project_create, project_edit and project_delete are the          *)
(* manager's requests; the entry form and the timer start set the project  *)
(* of an entry.                                                            *)
(***************************************************************************)
Project(id, name, active) == [id |-> id, name |-> name, active |-> active]

ProjectNames == {"A", "B"}

ProjectIds == 1..MaxProject

ProjectOf(ps, pid) == {p \in ps : p.id = pid}

\* TimesheetEntry.objects.filter(project=proj)
Referencing(store, pid) == {e \in store : e.project = pid}

\* the choices of the form's project field: the active projects, the project
\* the edited entry has, and the empty choice
ProjectChoices(store, ps, u, pk) ==
    {q.id : q \in {x \in ps : x.active}}
    \cup {e.project : e \in (IF pk = NULL THEN {} ELSE Lookup(store, u, pk))}
    \cup {NULL}

\* add_edit_entry / manager_add_edit_entry with the project and billable
\* fields of the form
AddEditProjectResults(store, ps, clock, nid, allowed, u, pk, wd, st, et, br, proj, bill) ==
    {IF r.errors \cap {"Forbidden", "NotFound", "TypeError"} # {} THEN r
     ELSE IF proj \notin ProjectChoices(store, ps, u, pk)
          THEN Result((r.errors \ {"IntegrityError"}) \cup {"InvalidChoice"}, store)
     ELSE IF r.errors # {} THEN r
     ELSE Result({}, {IF e.id = (IF pk = NULL THEN nid ELSE pk)
                      THEN [e EXCEPT !.project = proj, !.billable = bill]
                      ELSE e : e \in r.store})
     : r \in AddEditResults(store, clock, nid, allowed, u, pk, wd, st, et, br)}

\* start_time_entry with the project posted:
\* Project.objects.filter(id=project_id).first()
StartProjectResult(store, ps, clock, nid, u, proj) ==
    LET r == StartResult(store, clock, nid, u)
        found == IF ProjectOf(ps, proj) # {} THEN proj ELSE NULL
    IN  IF r.errors # {} THEN r
        ELSE Result({}, {IF e.id = nid THEN [e EXCEPT !.project = found] ELSE e
                         : e \in r.store})

\* project_create (POST)
ProjectCreateResult(ps, npid, u, name, active) ==
    IF Role(u) # "manager" THEN Result({"Forbidden"}, ps)
    ELSE Result({}, ps \cup {Project(npid, name, active)})

\* project_edit (POST)
ProjectEditResult(ps, u, pid, name, active) ==
    IF Role(u) # "manager" THEN Result({"Forbidden"}, ps)
    ELSE IF ProjectOf(ps, pid) = {} THEN Result({"NotFound"}, ps)
    ELSE Result({}, {q \in ps : q.id # pid} \cup {Project(pid, name, active)})

\* project_delete up to its delete statement: the role check, the lookup
\* and the exists() query
ProjectDeleteCheck(store, ps, u, pid) ==
    IF Role(u) # "manager" THEN Result({"Forbidden"}, ps)
    ELSE IF ProjectOf(ps, pid) = {} THEN Result({"NotFound"}, ps)
    ELSE IF Referencing(store, pid) # {} THEN Result({"ProjectInUse"}, ps)
    ELSE Result({}, ps)

\* a delete that does not look at the entries
DeleteUnprotected(store, ps, pid) ==
    Result({}, {q \in ps : q.id # pid})

\* proj.delete() under on_delete=PROTECT: refused while an entry has the
\* project
DeleteProtected(store, ps, pid) ==
    IF Referencing(store, pid) # {} THEN Result({"ProtectedError"}, ps)
    ELSE Result({}, {q \in ps : q.id # pid})

ServeProject(op, id, r) ==
    /\ r.errors \cap {"Forbidden", "NotFound"} = {}
    /\ projects' = r.store
    /\ last' = Request(op, id, r.errors)
    /\ report' = NoReport
    /\ UNCHANGED <<entries, nextId, now, weeks>>

ProjectCreate(names) ==
    /\ nextProject <= MaxProject
    /\ \E u \in Users, name \in names, active \in BOOLEAN :
          ServeProject("project_create", nextProject,
                       ProjectCreateResult(projects, nextProject, u, name, active))
    /\ nextProject' = nextProject + 1
    /\ UNCHANGED pc

ProjectEdit(names) ==
    /\ \E u \in Users, pid \in ProjectIds, name \in names, active \in BOOLEAN :
          ServeProject("project_edit", pid,
                       ProjectEditResult(projects, u, pid, name, active))
    /\ UNCHANGED <<nextProject, pc>>

\* project_delete runs its queries and its delete as separate statements:
\* worker p has passed the checks and holds the project
ProjectDeleteArrive(p) ==
    /\ pc[p].at = "idle"
    /\ \E u \in Users, pid \in ProjectIds :
          LET r == ProjectDeleteCheck(entries, projects, u, pid)
          IN  /\ r.errors \cap {"Forbidden", "NotFound"} = {}
              /\ IF r.errors # {}
                 THEN /\ last' = Request("project_delete", pid, r.errors)
                      /\ report' = NoReport
                      /\ UNCHANGED pc
                 ELSE /\ pc' = [pc EXCEPT ![p] = [at |-> "delete", user |-> u,
                                                  handler |-> "project_delete",
                                                  row |-> pid]]
                      /\ UNCHANGED <<last, report>>
    /\ UNCHANGED <<entries, nextId, now, weeks, catalog>>

ProjectDeleteRun(p) ==
    /\ pc[p].at = "delete"
    /\ ServeProject("project_delete", pc[p].row,
                    DeleteProtected(entries, projects, pc[p].row))
    /\ pc' = [pc EXCEPT ![p] = Idle]
    /\ UNCHANGED nextProject

\* the entry form with its project and billable fields
AddEditProject(op, allowed, users, dates, times, breaks, bills) ==
    \E u \in users, pk \in Ids \cup {NULL} :
        /\ pk = NULL => nextId <= MaxId
        /\ Role(u) = allowed
        /\ pk # NULL => Lookup(entries, u, pk) # {}
        /\ \E wd \in dates, st \in times, et \in times, br \in breaks,
              proj \in ProjectIds \cup {NULL}, bill \in bills :
              \E r \in AddEditProjectResults(entries, projects, now, nextId, allowed,
                                             u, pk, wd, st, et, br, proj, bill) :
                 Serve(op, pk, now, r)

StartProject(users) ==
    \E u \in users, t \in Readings, proj \in ProjectIds \cup {NULL} :
        /\ nextId <= MaxId
        /\ Serve("start_time_entry", NULL, t,
                 StartProjectResult(entries, projects, t, nextId, u, proj))

\* the manager's projects and one employee's entries of day 0
NextProject ==
    \/ ProjectCreate({"A"})
    \/ ProjectEdit({"A"})
    \/ \E p \in Procs : ProjectDeleteArrive(p)
    \/ \E p \in Procs : ProjectDeleteRun(p)
    \/ AddEditProject("add_edit_entry", "employee", {"emp"}, {0},
                      {0, 120}, {0}, {TRUE})
    \/ StartProject({"emp"})
    \/ DeleteEntry({"emp"})

SpecProject == Init /\ [][NextProject]_vars

(***************************************************************************)
(* Reports: manager_reports (all users, by project name) and my_reports    *)
(* (one employee, by project name, with the summary and details exports).  *)
(* The views add up float hours; the sums are kept here in minutes and in  *)
(* hundredths of an hour, which the floats stand for up to an error far    *)
(* below the rounding unit.                                                *)
(***************************************************************************)
\* e.project.name if e.project else 'Unassigned'
ProjectName(ps, e) ==
    IF e.project = NULL THEN "Unassigned"
    ELSE (CHOOSE q \in ProjectOf(ps, e.project) : TRUE).name

\* filter(work_date__range=(start, end))
InRange(store, start, end) ==
    {e \in store : start <= e.work_date /\ e.work_date <= end}

\* billable_map counting every entry
BillableMinutesAll(S) == SumMinutes(S)

\* billable_map[name] += h, if e.billable
BillableMinutes(S) == SumMinutes({e \in S : e.billable})

\* round((bill / hrs * 100) if hrs else 0, 2), in hundredths of a percent
PercentBillable(bill, hrs) == IF hrs = 0 THEN 0 ELSE RoundDiv(10000 * bill, hrs)

\* the row of one project name, from the minutes added up for it
ReportRow(name, hrs, bill) ==
    [project |-> name, hours |-> Hours(hrs), billable_hours |-> Hours(bill),
     percent_billable |-> PercentBillable(bill, hrs)]

\* rows of manager_reports
ManagerReportRows(store, ps, start, end) ==
    LET qs == InRange(store, start, end)
        group(n) == {e \in qs : ProjectName(ps, e) = n}
    IN  {ReportRow(n, SumMinutes(group(n)), BillableMinutes(group(n)))
         : n \in {ProjectName(ps, e) : e \in qs}}

\* f"{x:.2f}": the integer part and the two decimals
Format2(x) == <<x \div 100, x % 100>>

\* the lines manager_reports writes with export=csv
ManagerReportCsv(rows) ==
    {<<r.project, Format2(r.hours), Format2(r.billable_hours),
       Format2(r.percent_billable)>> : r \in rows}

ManagerReportsResult(store, ps, u, start, end, csv) ==
    IF Role(u) # "manager" THEN [view |-> "forbidden"]
    ELSE IF csv
         THEN [view |-> "manager_reports_csv",
               lines |-> ManagerReportCsv(ManagerReportRows(store, ps, start, end))]
         ELSE [view |-> "manager_reports",
               rows |-> ManagerReportRows(store, ps, start, end)]

\* the entries my_reports shows: the user's, in the range, of the project
\* chosen if one is
MyReportEntries(store, u, start, end, filter) ==
    {e \in InRange(store, start, end) :
        e.user = u /\ (filter = NULL \/ e.project = filter)}

\* e.hours = round(e.duration_minutes / 60.0, 2)
EntryHours(e) == Hours(e.duration_minutes)

\* the hours of a summary row taken from the minutes added up
SummaryHoursOfMinutes(S) == Hours(SumMinutes(S))

\* summary_dict[name] += e.hours, and round(v, 2) of the sum
RECURSIVE SummaryHours(_)
SummaryHours(S) ==
    IF S = {} THEN 0
    ELSE LET e == CHOOSE x \in S : TRUE
         IN  EntryHours(e) + SummaryHours(S \ {e})

\* summary_rows of my_reports
SummaryRows(ps, S) ==
    {[name |-> n, hours |-> SummaryHours({e \in S : ProjectName(ps, e) = n})]
     : n \in {ProjectName(ps, e) : e \in S}}

\* the lines of the summary export
CsvSummary(rows) == {<<r.name, Format2(r.hours)>> : r \in rows}

\* strftime("%H:%M"), or "" without a time: the minute of the day or NULL
HourMinute(dt) == IF dt = NULL THEN NULL ELSE (dt % 86400) \div 60

\* the lines of the details export, by the entry each is written for
CsvDetails(ps, S) ==
    [id \in {e.id : e \in S} |->
        LET e == CHOOSE x \in S : x.id = id
        IN  <<e.work_date, ProjectName(ps, e), HourMinute(e.start_time),
              HourMinute(e.end_time), e.break_minutes, Format2(EntryHours(e))>>]

MyReportsResult(store, ps, u, start, end, filter, export) ==
    LET S == MyReportEntries(store, u, start, end, filter)
    IN  IF Role(u) # "employee" THEN [view |-> "forbidden"]
        ELSE IF export = "summary"
             THEN [view |-> "my_reports_summary_csv",
                   lines |-> CsvSummary(SummaryRows(ps, S))]
        ELSE IF export = "details"
             THEN [view |-> "my_reports_details_csv", lines |-> CsvDetails(ps, S)]
        ELSE [view |-> "my_reports", summary_rows |-> SummaryRows(ps, S),
              hours |-> [id \in {e.id : e \in S} |->
                            EntryHours(CHOOSE x \in S : x.id = id)]]

\* manager_my_reports: the manager's own entries, figures as in my_reports
ManagerMyReportsResult(store, ps, u, start, end, filter, export) ==
    LET S == MyReportEntries(store, u, start, end, filter)
    IN  IF Role(u) # "manager" THEN [view |-> "forbidden"]
        ELSE IF export = "summary"
             THEN [view |-> "manager_my_reports_summary_csv",
                   lines |-> CsvSummary(SummaryRows(ps, S))]
        ELSE IF export = "details"
             THEN [view |-> "manager_my_reports_details_csv", lines |-> CsvDetails(ps, S)]
        ELSE [view |-> "manager_my_reports", summary_rows |-> SummaryRows(ps, S),
              hours |-> [id \in {e.id : e \in S} |->
                            EntryHours(CHOOSE x \in S : x.id = id)]]

\* weekly_summary_fragment: this week's hours and whether the week is approved
FragmentResult(store, ws, clock, u) ==
    [view |-> "fragment",
     total_hours |-> WeekReport(store, LocalDate(clock), u).total_hours,
     approved |-> \E w \in WeekOf(ws, u, get_current_week_bounds(LocalDate(clock))[1]) :
                     w.status = "approved"]

\* the date ranges asked for: week 0, week 0 with the Monday after, that Monday
ReportRanges == {<<0, 6>>, <<0, 7>>, <<7, 7>>}

ServeReport(op, rep) ==
    /\ rep.view # "forbidden"
    /\ report' = rep
    /\ last' = Request(op, NULL, {})
    /\ UNCHANGED <<entries, nextId, now, weeks, pc, catalog>>

ManagerReports ==
    \E u \in Users, range \in ReportRanges, csv \in BOOLEAN :
        ServeReport("manager_reports",
                    ManagerReportsResult(entries, projects, u, range[1], range[2], csv))

MyReports ==
    \E u \in Users, range \in ReportRanges, filter \in ProjectIds \cup {NULL},
       export \in {"", "summary", "details"} :
        ServeReport("my_reports",
                    MyReportsResult(entries, projects, u, range[1], range[2],
                                    filter, export))

ManagerMyReports ==
    \E u \in Users, range \in ReportRanges, filter \in ProjectIds \cup {NULL},
       export \in {"", "summary", "details"} :
        ServeReport("manager_my_reports",
                    ManagerMyReportsResult(entries, projects, u, range[1], range[2],
                                           filter, export))

WeeklySummaryFragment ==
    \E u \in Users :
        ServeReport("weekly_summary_fragment", FragmentResult(entries, weeks, now, u))

(***************************************************************************)
(* The dashboards' calendar of the year.  A year is the run of             *)
(* MaxYearDay + 1 days numbered from a multiple of MaxYearDay + 1, so that *)
(* successive years begin on different weekdays.  The hours of a day are   *)
(* total_minutes / 60, not rounded: they are kept as the count of          *)
(* sixtieths of an hour.                                                   *)
(***************************************************************************)
MaxYearDay == 9

\* dt.date(today.year, 1, 1)
year_start(today) == (today \div (MaxYearDay + 1)) * (MaxYearDay + 1)

\* dt.date(today.year, 12, 31)
year_end(today) == year_start(today) + MaxYearDay

\* {e["work_date"]: e["total_minutes"] / 60 for e in entries_qs}
hours_map(store, u, first, last_day) ==
    LET entries_qs == {e \in store : /\ e.user = u
                                     /\ first <= e.work_date
                                     /\ e.work_date <= last_day}
    IN  [d \in {e.work_date : e \in entries_qs} |->
            SumMinutes({e \in entries_qs : e.work_date = d})]

\* hours_map.get(current_date, 0)
HoursGet(map, d) == IF d \in DOMAIN map THEN map[d] ELSE 0

\* while current_date <= year_end: close the bucket when weekday() == 6 and
\* the bucket is not empty, append the day; the last bucket is appended
\* after the loop
RECURSIVE CalLoop(_, _, _, _, _)
CalLoop(map, current_date, last_day, week, cal_data) ==
    IF current_date > last_day
    THEN IF week # <<>> THEN Append(cal_data, week) ELSE cal_data
    ELSE LET close == Weekday(current_date) = 6 /\ week # <<>>
             day == [date |-> current_date, hours |-> HoursGet(map, current_date)]
         IN  CalLoop(map, current_date + 1, last_day,
                     Append(IF close THEN <<>> ELSE week, day),
                     IF close THEN Append(cal_data, week) ELSE cal_data)

\* cal_data of employee_dashboard and manager_dashboard
CalData(store, u, today) ==
    CalLoop(hours_map(store, u, year_start(today), year_end(today)),
            year_start(today), year_end(today), <<>>, <<>>)

\* the dashboard of role `role`: the calendar and this week's hours
DashboardResult(store, clock, role, u) ==
    IF Role(u) # role THEN [view |-> "forbidden"]
    ELSE [view |-> "dashboard",
          cal_data |-> CalData(store, u, LocalDate(clock)),
          this_week_hours |-> WeekReport(store, LocalDate(clock), u).total_hours]

EmployeeDashboard ==
    \E u \in Users :
        ServeReport("employee_dashboard", DashboardResult(entries, now, "employee", u))

ManagerDashboard ==
    \E u \in Users :
        ServeReport("manager_dashboard", DashboardResult(entries, now, "manager", u))

\* the stores that one more entry request served at clock reading 00:00:30
\* leaves: the employee's form for day 0 or day 7, the manager's form for
\* day 0, the employee's timer start
OneMore(store, ps) ==
    LET nid == Cardinality(store) + 1
        clock == Combine(0, 30)
        own(u) == {e.id : e \in {x \in store : x.user = u}} \cup {NULL}
        employee == UNION {AddEditProjectResults(store, ps, clock, nid, "employee",
                                                 "emp", pk, wd, st, 120, 0, proj, bill) :
                              pk \in own("emp"), wd \in {0, 7}, st \in {0, 30},
                              proj \in ProjectIds \cup {NULL}, bill \in BOOLEAN}
        manager == UNION {AddEditProjectResults(store, ps, clock, nid, "manager",
                                                "mgr", pk, 0, 0, 120, 0, proj, TRUE) :
                             pk \in own("mgr"), proj \in ProjectIds \cup {NULL}}
        starts == {StartProjectResult(store, ps, clock, nid, "emp", proj) :
                      proj \in ProjectIds \cup {NULL}}
    IN  {r.store : r \in {x \in employee \cup manager \cup starts : x.errors = {}}}

\* the stores that up to n entry requests leave
RECURSIVE StoresAfter(_, _)
StoresAfter(n, ps) ==
    IF n = 0 THEN {{}}
    ELSE LET before == StoresAfter(n - 1, ps)
         IN  before \cup UNION {OneMore(store, ps) : store \in before}

\* two projects of the manager, the second one under either name, and the
\* entries that the requests of both users have left by 00:02:00 of the
\* Monday of week 0
InitReport ==
    /\ \E name \in ProjectNames :
          projects = {Project(1, "A", TRUE), Project(2, name, TRUE)}
    /\ nextProject = 3
    /\ entries \in StoresAfter(MaxId, projects)
    /\ nextId = Cardinality(entries) + 1
    /\ now = Combine(0, 120)
    /\ last = NoRequest
    /\ weeks = {}
    /\ pc = [p \in Procs |-> Idle]
    /\ report = NoReport

\* the views that show hour figures
NextReport ==
    \/ MyTimesheet
    \/ WeeklySummaryFragment
    \/ ManagerReports
    \/ MyReports
    \/ ManagerMyReports
    \/ EmployeeDashboard
    \/ ManagerDashboard

SpecReport == InitReport /\ [][NextReport]_vars

(***************************************************************************)
(* Properties of the stored entries.                                       *)
(***************************************************************************)
Closed(e) == e.start_time # NULL /\ e.end_time # NULL

\* the half-open intervals [start_time, end_time) of e1 and e2 share an instant
Intersect(e1, e2) ==
    /\ e1.start_time < e2.end_time /\ e2.start_time < e1.end_time
    /\ e1.start_time < e1.end_time /\ e2.start_time < e2.end_time

\* C1: no two stored entries of one user with the same work_date and both
\* times set have overlapping intervals [start_time, end_time).
NoOverlappingEntries ==
    \A e1 \in entries, e2 \in entries :
        (/\ e1.id # e2.id
         /\ e1.user = e2.user
         /\ e1.work_date = e2.work_date
         /\ Closed(e1) /\ Closed(e2))
        => ~Intersect(e1, e2)

\* C2: under sequential requests each user has at most one stored entry
\* whose end_time is null.
AtMostOneRunning ==
    \A u \in Users : Cardinality(Running(entries, u)) <= 1

\* C3: when start-timer requests of one user interleave, the user never has
\* two stored entries whose end_time is null.
NoTwoRunningAfterRace ==
    \A e1 \in entries, e2 \in entries :
        (e1.user = e2.user /\ e1.end_time = NULL /\ e2.end_time = NULL)
        => e1.id = e2.id

\* C7: every stored entry with both times set has end_time > start_time.
EndAfterStart ==
    \A e \in entries : Closed(e) => e.end_time > e.start_time

\* C8: every stored entry with both times set has a positive net duration:
\* the whole minutes from start_time to end_time, minus break_minutes.
PositiveNetDuration ==
    \A e \in entries :
        Closed(e) => FloorMinutes(e.end_time - e.start_time) - e.break_minutes > 0

SaveOps == {"add_edit_entry", "manager_add_edit_entry"}

\* C9: after an accepted save of an entry with both times set and a valid
\* (start, end, break), the stored duration_minutes is
\* floor((end - start) in seconds / 60) - break_minutes.
SavedDurationIsNet ==
    (last.op \in SaveOps /\ last.errors = {})
    => \A e \in entries :
          (/\ e.id = last.id
           /\ Closed(e)
           /\ e.end_time > e.start_time
           /\ FloorMinutes(e.end_time - e.start_time) - e.break_minutes > 0)
          => e.duration_minutes =
                 FloorMinutes(e.end_time - e.start_time) - e.break_minutes

\* the overlap rule of the specification for a candidate [wd+st, wd+et) of
\* user u, pk being the entry edited: some other entry of the user and date
\* with a start_time has NOT(new_end <= other_start OR new_start >= other_end),
\* a running entry having no end
RuleOverlap(store, u, pk, wd, st, et) ==
    \E o \in store :
        /\ o.user = u /\ o.work_date = wd /\ o.id # pk /\ o.start_time # NULL
        /\ ~(\/ Combine(wd, et) <= o.start_time
             \/ (o.end_time # NULL /\ Combine(wd, st) >= o.end_time))

\* C10: saving a candidate with both times set (a proper interval) fails with
\* OverlapConflict if and only if the overlap rule finds another entry of the
\* same user and work_date; stated of every save request the employee can
\* make in the current state.
OverlapConflictIffRule ==
    \A pk \in Ids \cup {NULL}, wd \in Dates, st \in TimesOfDay, et \in TimesOfDay :
        (et > st /\ (pk # NULL => Lookup(entries, "emp", pk) # {}))
        => \A r \in AddEditResults(entries, now, nextId, "employee", "emp",
                                   pk, wd, st, et, 0) :
              ("OverlapConflict" \in r.errors)
                  <=> RuleOverlap(entries, "emp", pk, wd, st, et)

(***************************************************************************)
(* Properties of the weekly approval.                                      *)
(***************************************************************************)
CurrentWeek(u) == WeekOf(weeks, u, get_current_week_bounds(LocalDate(now))[1])

\* C4: submit applied to a week that is already submitted, approved or
\* rejected fails with AlreadySubmitted and leaves its status and
\* submitted_at unchanged.
SubmitFailsUnlessDraft ==
    [][\A u \in Users :
          (/\ ServeWeek("submit_week", NULL, SubmitResult(weeks, now, u))
           /\ \E w \in CurrentWeek(u) : w.status # "draft")
          => /\ last'.errors = {"AlreadySubmitted"}
             /\ \A w \in CurrentWeek(u) :
                   \E x \in weeks' : /\ x.id = w.id
                                     /\ x.status = w.status
                                     /\ x.submitted_at = w.submitted_at]_vars

\* C5: approve and reject applied to a week whose status is not submitted
\* fail and leave its status, approver, approved_at, audit_note and
\* manager_comment unchanged.
DecisionFailsUnlessSubmitted ==
    [][\A m \in Users, id \in 1..Cardinality(weeks), action \in {"approve", "reject"},
          note \in Notes, comment \in Notes :
          (/\ ServeWeek(action, id,
                        WeekDetailResult(weeks, now, m, id, action, note, comment))
           /\ \E w \in weeks : w.id = id /\ w.status # "submitted")
          => /\ last'.errors # {}
             /\ \A w \in weeks : w.id = id => w \in weeks']_vars

\* C6: once a week is approved or rejected, no request brings its status
\* back to submitted or draft.
DecidedNeverResubmitted ==
    [][\A w \in weeks :
          w.status \in {"approved", "rejected"}
          => \A x \in weeks' : x.id = w.id => x.status \notin {"submitted", "draft"}]_vars

(***************************************************************************)
(* Properties of the timers.                                               *)
(***************************************************************************)
StartOps == {"start_time_entry", "manager_start_time_entry"}

\* user u's start request served by start_time_entry at clock reading t
EmployeeStart(u, t) ==
    Serve("start_time_entry", NULL, t, StartResult(entries, t, nextId, u))

\* user u's start request served by manager_start_time_entry at reading t
ManagerStart(u, t) ==
    Serve("manager_start_time_entry", NULL, t, ManagerStartResult(entries, t, nextId, u))

\* C11: a start-timer request of a user who already has an entry with null
\* end_time fails with TimerAlreadyRunning and leaves the stored entries as
\* they were.
StartFailsWhenRunning ==
    [][\A u \in Users, t \in Readings :
          (Running(entries, u) # {} /\ (EmployeeStart(u, t) \/ ManagerStart(u, t)))
          => (last'.errors = {"TimerAlreadyRunning"} /\ entries' = entries)]_vars

\* C11 witness: a start request was refused because a timer was running
StartRefusedWhileRunning ==
    /\ last.op \in StartOps
    /\ last.errors = {"TimerAlreadyRunning"}
    /\ \E e \in entries : e.end_time = NULL

\* the request created exactly the entry (nextId, u, today, now, null, 0)
\* and left every other entry unchanged
CreatedRunning(u, t) ==
    /\ last'.errors = {}
    /\ \A e \in entries : e.id # nextId
    /\ entries' = entries \cup
           {[id |-> nextId, user |-> u, work_date |-> LocalDate(t), start_time |-> t,
             end_time |-> NULL, break_minutes |-> 0, duration_minutes |-> 0,
             project |-> NULL, billable |-> TRUE]}

\* C12 as stated: a start-timer request of a user without an entry with null
\* end_time creates exactly one new entry of that user with start_time = now,
\* work_date = today, end_time null and duration_minutes 0, and changes no
\* other entry.
StartCreatesWhenNotRunning ==
    [][\A u \in Users, t \in Readings :
          (Running(entries, u) = {} /\ (EmployeeStart(u, t) \/ ManagerStart(u, t)))
          => CreatedRunning(u, t)]_vars

\* C12 amended: the same, except that start_time_entry refuses the request
\* when an entry of the user dated today has start_time <= now <= end_time.
StartCreatesUnlessCovered ==
    [][\A u \in Users, t \in Readings :
          /\ (Running(entries, u) = {} /\ ManagerStart(u, t)) => CreatedRunning(u, t)
          /\ (Running(entries, u) = {} /\ EmployeeStart(u, t))
                => IF OverlappingToday(entries, t, u)
                   THEN last'.errors # {} /\ entries' = entries
                   ELSE CreatedRunning(u, t)]_vars

\* C12 witness: a start request has just created the running entry
TimerJustStarted ==
    /\ last.op \in StartOps
    /\ last.errors = {}
    /\ \E e \in entries : /\ e.id = last.id
                          /\ e.start_time = now
                          /\ e.end_time = NULL
                          /\ e.duration_minutes = 0

StopOps == {"stop_time_entry", "manager_stop_time_entry"}

\* the request is refused with error err and writes nothing
Refused(r, err) == r.errors = {err} /\ r.store = entries

\* C13: in every reachable state, a stop request naming an id that is not an
\* entry of the requesting user is refused with NotFound, and one naming an
\* entry whose end_time is set is refused with AlreadyStopped; neither
\* changes a stored entry (end_time and duration_minutes included).
StopRefusedKeepsEntries ==
    \A u \in Users, id \in Ids, t \in Readings :
        LET r == StopResult(entries, t, u, id)
            m == ManagerStopResult(entries, t, u, id)
            stopped == \E e \in Lookup(entries, u, id) : e.end_time # NULL
        IN  /\ Lookup(entries, u, id) = {}
                => Refused(r, "NotFound") /\ (Role(u) = "manager" => Refused(m, "NotFound"))
            /\ stopped
                => Refused(r, "AlreadyStopped")
                   /\ (Role(u) = "manager" => Refused(m, "AlreadyStopped"))

\* C13 witness: a second stop of a stopped entry has just been refused, and
\* the store also holds an entry that the requesting user does not own
SecondStopRefused ==
    /\ last.op \in StopOps
    /\ last.errors = {"AlreadyStopped"}
    /\ \E e \in entries, f \in entries :
          e.id = last.id /\ e.end_time # NULL /\ f.user # e.user

\* user u's stop request for entry id served at clock reading t
StopRequest(u, id, t) ==
    \/ Serve("stop_time_entry", id, t, StopResult(entries, t, u, id))
    \/ Serve("manager_stop_time_entry", id, t, ManagerStopResult(entries, t, u, id))

\* C14: a successful stop of the user's running entry sets its end_time to
\* now and its duration_minutes to floor((now - start_time) / 60), changes no
\* other field and no other entry, and the entry is no longer running.
StopSetsEndAndDuration ==
    [][\A u \in Users, id \in Ids, t \in Readings :
          \A e \in Lookup(entries, u, id) :
             (e.end_time = NULL /\ StopRequest(u, id, t) /\ last'.errors = {})
             => /\ entries' = (entries \ {e}) \cup
                      {[e EXCEPT !.end_time = t,
                                 !.duration_minutes = FloorMinutes(t - e.start_time)]}
                /\ Lookup(entries', u, id) \cap Running(entries', u) = {}]_vars

(***************************************************************************)
(* Properties of the week summaries.                                       *)
(***************************************************************************)
Decided == {"approved", "rejected"}

\* C15: a week summary gets the status approved or rejected only in an
\* approve or reject request of a manager, which records that manager as
\* approver and the time of the request as approved_at; so every summary
\* with status approved or rejected has a manager as approver and an
\* approved_at.
DecidedOnlyByManager ==
    /\ [](\A w \in weeks :
             w.status \in Decided
             => w.approver # None /\ Role(w.approver) = "manager" /\ w.approved_at # NULL)
    /\ [][\A x \in weeks' :
             (x.status \in Decided /\ x \notin weeks)
             => /\ last'.op = (IF x.status = "approved" THEN "approve" ELSE "reject")
                /\ last'.id = x.id
                /\ Role(x.approver) = "manager"
                /\ x.approved_at = now]_vars

\* C15 witness: a manager has just rejected a week
WeekJustRejected ==
    /\ last.op = "reject"
    /\ \E w \in weeks : /\ w.id = last.id /\ w.status = "rejected"
                        /\ w.approver = "mgr" /\ w.approved_at = now

\* C16: submit by user u, whose summary of the current week is draft (or
\* does not exist yet), leaves that summary submitted with submitted_at =
\* now and its approver, approved_at, audit_note and manager_comment as they
\* were, and changes no summary of another user or of another week.
SubmitChangesOwnWeekOnly ==
    [][\A u \in Users :
          (/\ ServeWeek("submit_week", NULL, SubmitResult(weeks, now, u))
           /\ \A w \in CurrentWeek(u) : w.status = "draft")
          => /\ last'.errors = {}
             /\ \E x \in weeks' :
                   LET before == IF CurrentWeek(u) = {}
                                 THEN WeekSummary(x.id, u, Monday)
                                 ELSE CHOOSE w \in CurrentWeek(u) : TRUE
                   IN  /\ x = [before EXCEPT !.status = "submitted",
                                             !.submitted_at = now]
                       /\ weeks' \ {x} = weeks \ CurrentWeek(u)]_vars

\* C16 witness: the employee has just submitted the current week while the
\* store holds a summary of another week or user
WeekJustSubmitted ==
    /\ last.op = "submit_week"
    /\ \E w \in CurrentWeek("emp"), o \in weeks :
          /\ w.status = "submitted" /\ w.submitted_at = now
          /\ o.id # w.id /\ o.status # "submitted"

\* user u views the week of Monday ws (my_timesheet, manager_my_timesheet)
ViewWeek(u, ws) ==
    \/ /\ ws = Monday
       /\ ServeWeek("my_timesheet", NULL, MyTimesheetResult(weeks, now, u))
    \/ \E vd \in {LocalDate(t) : t \in WeekClock} \cup {NULL} :
          /\ ws = get_current_week_bounds(IF vd = NULL THEN LocalDate(now) ELSE vd)[1]
          /\ ServeWeek("manager_my_timesheet", NULL,
                       ManagerMyTimesheetResult(weeks, now, u, vd))

\* C17: get_or_create(user, week_start), as the week views call it, never
\* errors; on a (user, week_start) without summary it creates one, draft,
\* under a new id, and on one with a summary it changes nothing, whatever
\* the status of that summary.
GetOrCreateIdempotent ==
    [][\A u \in Users, ws \in {get_current_week_bounds(LocalDate(t))[1] : t \in WeekClock} :
          ViewWeek(u, ws)
          => /\ last'.errors = {}
             /\ IF WeekOf(weeks, u, ws) # {}
                THEN weeks' = weeks
                ELSE \E x \in weeks' :
                        /\ weeks' = weeks \cup {x}
                        /\ x = WeekSummary(x.id, u, ws)
                        /\ \A w \in weeks : w.id # x.id]_vars

\* C17 witness: the employee has viewed the current week again after it was
\* approved
ApprovedWeekViewedAgain ==
    /\ last.op = "my_timesheet"
    /\ \E w \in CurrentWeek("emp") : w.status = "approved"

\* C18: there is at most one week summary per (user, week_start), also
\* while view-week and submit-week requests of one user interleave.
OneSummaryPerUserWeek ==
    \A w \in weeks, x \in weeks :
        (w.user = x.user /\ w.week_start = x.week_start) => w = x

\* C18 witness: two requests of the employee both found no summary and both
\* went on to insert; one has inserted, the other is about to
SecondInsertPending ==
    /\ \E p \in Procs, q \in Procs :
          /\ p # q
          /\ pc[p].at = "insert" /\ pc[q].at = "have"
          /\ pc[p].user = pc[q].user
    /\ weeks # {}

(***************************************************************************)
(* Properties of the validation of a saved entry.                          *)
(***************************************************************************)
\* the entry that a save request asks the store to hold: the submitted
\* fields, and for a field left blank what the edited entry already has
Candidate(u, pk, wd, st, et, br) == Compose(Construct(entries, u, pk, wd, br), st, et)

\* the save requests the employee can make in the current state
SaveRequests ==
    {q \in [pk : Ids \cup {NULL}, wd : {0}, st : TimesOfDay \cup {NULL},
            et : TimesOfDay \cup {NULL}, br : Breaks] :
        q.pk # NULL => Lookup(entries, "emp", q.pk) # {}}

SaveResults(q) ==
    AddEditResults(entries, now, nextId, "employee", "emp", q.pk, q.wd, q.st, q.et, q.br)

\* C19: a save request whose candidate has end_time <= start_time fails
\* with InvalidRange and leaves the stored entries unchanged.
InvalidRangeRefused ==
    \A q \in SaveRequests :
        LET c == Candidate("emp", q.pk, q.wd, q.st, q.et, q.br)
        IN  (Closed(c) /\ c.end_time <= c.start_time)
            => \A r \in SaveResults(q) :
                  "InvalidRange" \in r.errors /\ r.store = entries

\* C20: a save request whose candidate has end_time > start_time and
\* (end - start) in whole minutes minus break_minutes <= 0 fails with
\* NonPositiveDuration and leaves the stored entries unchanged.
NonPositiveDurationRefused ==
    \A q \in SaveRequests :
        LET c == Candidate("emp", q.pk, q.wd, q.st, q.et, q.br)
        IN  (/\ Closed(c) /\ c.end_time > c.start_time
             /\ FloorMinutes(c.end_time - c.start_time) - c.break_minutes <= 0)
            => \A r \in SaveResults(q) :
                  "NonPositiveDuration" \in r.errors /\ r.store = entries

\* the other entries of the employee dated q.wd that are running: they have
\* a start_time and no end_time
RunningOthers(q) ==
    {e \in entries : /\ e.user = "emp" /\ e.work_date = q.wd /\ e.id # q.pk
                      /\ e.start_time # NULL /\ e.end_time = NULL}

\* C21: a running entry counts as open-ended in the overlap test: a save with
\* both times submitted (a proper interval) is refused with OverlapConflict
\* when it ends after the start of a running entry of the same user and
\* work_date, and is not refused on account of a running entry that starts
\* at or after its end (no other entry of that date being there).
RunningEntryIsOpenEnded ==
    \A q \in SaveRequests :
        (q.st # NULL /\ q.et # NULL /\ q.et > q.st)
        => \A e \in RunningOthers(q), r \in SaveResults(q) :
              /\ Combine(q.wd, q.et) > e.start_time => "OverlapConflict" \in r.errors
              /\ (/\ Combine(q.wd, q.et) <= e.start_time
                  /\ \A o \in entries :
                        (o.user = "emp" /\ o.work_date = q.wd) => o.id \in {e.id, q.pk})
                 => r.errors \cap {"OverlapConflict", "TypeError"} = {}

\* the request that saves the stored entry x again with its own work_date,
\* times and break
Resave(x) ==
    {q \in SaveRequests :
        /\ q.pk = x.id /\ q.wd = x.work_date /\ q.br = x.break_minutes
        /\ q.st # NULL /\ Combine(q.wd, q.st) = x.start_time
        /\ q.et # NULL /\ Combine(q.wd, q.et) = x.end_time}

\* C22: the overlap check leaves out the entry being edited: saving a stored
\* entry again with its own work_date, start and end is accepted when the
\* overlap rule finds no other entry of the user on that date.
ResaveUnchangedAccepted ==
    \A x \in entries :
        (x.user = "emp" /\ Closed(x))
        => \A q \in Resave(x) :
              ~RuleOverlap(entries, "emp", q.pk, q.wd, q.st, q.et)
              => \A r \in SaveResults(q) : r.errors = {}

\* the form-level check accepts the save request q
FormAccepts(q) == FormClean(entries, now, "emp", q.pk, q.wd, q.st, q.et) = {}

\* the model-level check, invoked on the candidate of q, accepts it
ModelAccepts(q) ==
    ModelClean(entries, Candidate("emp", q.pk, q.wd, q.st, q.et, q.br)) \subseteq {"pass"}

\* C23: the form-level and the model-level check agree on a candidate with
\* both times submitted: against the same stored entries both accept or both
\* reject it, and the duration_minutes that the model-level check computes is
\* the one the save stores.
ChecksAgree ==
    \A q \in SaveRequests :
        (q.st # NULL /\ q.et # NULL)
        => LET c == Candidate("emp", q.pk, q.wd, q.st, q.et, q.br)
           IN  /\ FormAccepts(q) <=> ModelAccepts(q)
               /\ (FormAccepts(q) /\ ModelAccepts(q))
                  => Cleaned(c, "pass").duration_minutes = c.duration_minutes

(***************************************************************************)
(* Properties of the requests as a whole.                                  *)
(***************************************************************************)
\* the failures that no handler catches: the request ends in a server error
Undeclared == {"TypeError", "IntegrityError"}

\* C24: no request ends in an undeclared failure: every request served ends
\* in success or in one of the errors that the handlers report.
NoUndeclaredFailure == last.errors \cap Undeclared = {}

\* C25: an entry with null end_time comes into existence only in a timer
\* start, and an end_time changes from null to a value only in a timer stop.
OnlyTimersWriteRunning ==
    [][/\ (\E x \in entries' : x.end_time = NULL /\ \A e \in entries : e.id # x.id)
          => last'.op \in StartOps
       /\ (\E e \in entries, x \in entries' :
              e.id = x.id /\ e.end_time = NULL /\ x.end_time # NULL)
          => last'.op \in StopOps]_vars

(***************************************************************************)
(* Ownership of entries.                                                   *)
(***************************************************************************)
\* the outcomes of every edit, stop and delete request that user a can make
\* naming entry id, each with the role its handler is restricted to
NamedResults(a, id) ==
    {[need |-> "employee", r |-> r] :
        r \in UNION {AddEditResults(entries, now, nextId, "employee", a, id, wd, st, et, br) :
                       wd \in {0}, st \in TimesOfDay \cup {NULL},
                       et \in TimesOfDay \cup {NULL}, br \in Breaks}
               \cup {DeleteResult(entries, "employee", a, id)}}
    \cup
    {[need |-> "manager", r |-> r] :
        r \in UNION {AddEditResults(entries, now, nextId, "manager", a, id, wd, st, et, br) :
                       wd \in {0}, st \in TimesOfDay \cup {NULL},
                       et \in TimesOfDay \cup {NULL}, br \in Breaks}
               \cup {DeleteResult(entries, "manager", a, id)}
               \cup {ManagerStopResult(entries, t, a, id) : t \in ClockInstants}}
    \cup
    {[need |-> "any", r |-> StopResult(entries, t, a, id)] : t \in ClockInstants}

\* the outcomes of every request that user a can make at all
AllResults(a) ==
    UNION {{x.r : x \in NamedResults(a, id)} : id \in Ids \cup {NULL}}
    \cup {StartResult(entries, t, nextId, a) : t \in ClockInstants}
    \cup {ManagerStartResult(entries, t, nextId, a) : t \in ClockInstants}

Of(store, b) == {e \in store : e.user = b}

\* C26 as stated: an edit, stop or delete request by a user that names an
\* entry of another user fails with NotFound.
ForeignRequestNotFound ==
    \A a \in Users, e \in entries :
        e.user # a => \A x \in NamedResults(a, e.id) : x.r.errors = {"NotFound"}

\* C26: an edit, stop or delete request by a user that names an entry of
\* another user fails, with Forbidden when the handler is restricted to a
\* role the user does not have and with NotFound otherwise, and no request
\* of a user changes or removes an entry of another user.
ForeignRequestFails ==
    /\ \A a \in Users, e \in entries :
          e.user # a =>
             \A x \in NamedResults(a, e.id) :
                x.r.errors = IF x.need \in {"any", Role(a)} THEN {"NotFound"}
                             ELSE {"Forbidden"}
    /\ \A a \in Users, b \in Users :
          a # b => \A r \in AllResults(a) : Of(r.store, b) = Of(entries, b)

\* C26: both users own an entry and the latest request stopped one of them
BothOwnAfterStop ==
    /\ Of(entries, "emp") # {} /\ Of(entries, "mgr") # {}
    /\ last.op \in StopOps /\ last.errors = {}

(***************************************************************************)
(* Projects in use.                                                        *)
(***************************************************************************)
\* the step answers a project_delete request for project pid
DeleteAnswered(pid) ==
    \E p \in Procs :
       \/ ProjectDeleteRun(p) /\ pc[p].row = pid
       \/ ProjectDeleteArrive(p) /\ pc' = pc /\ last'.id = pid

\* C27: a project that an entry references is never deleted: a delete request
\* for it is refused with an error and leaves the projects and the entries
\* unchanged, and in every state the project of each entry is null or the id
\* of an existing project.
ReferencedProjectNeverDeleted ==
    /\ [](\A e \in entries : e.project = NULL \/ ProjectOf(projects, e.project) # {})
    /\ [][\A pid \in ProjectIds :
             Referencing(entries, pid) # {} =>
                /\ ProjectOf(projects', pid) # {}
                /\ DeleteAnswered(pid) =>
                      /\ last'.errors # {}
                      /\ projects' = projects
                      /\ entries' = entries]_vars

\* C27: a delete request for a project that an entry references was refused
DeleteRefused ==
    /\ last.op = "project_delete"
    /\ last.errors # {}
    /\ Referencing(entries, last.id) # {}

(***************************************************************************)
(* Hour figures of the week view, the reports and the exports.             *)
(***************************************************************************)
Abs(x) == IF x < 0 THEN 0 - x ELSE x

\* x is n / d rounded to the nearest integer
Nearest(x, n, d) == 2 * Abs(x * d - n) <= d

\* duration_minutes added up over the entries of S with ids 1..n
RECURSIVE MinutesOf(_, _)
MinutesOf(n, S) ==
    IF n = 0 THEN 0
    ELSE MinutesOf(n - 1, S)
         + (IF \E e \in S : e.id = n
            THEN (CHOOSE e \in S : e.id = n).duration_minutes
            ELSE 0)

\* the minutes of user u's entries dated in the week of Monday ws
OwnWeekMinutes(u, ws) ==
    MinutesOf(MaxId, {e \in entries :
                         e.user = u /\ ws <= e.work_date /\ e.work_date <= ws + 6})

\* the days a week view is asked for: in week 0 and in week 1
ViewDays == {0, 7}

\* C28: the week view's total for a user is the sum of duration_minutes over
\* that user's entries dated week_start .. week_start + 6, divided by 60 and
\* shown in hours to two decimals (300 and 120 minutes give 7.00); a running
\* entry, an entry of another user and an entry outside the week contribute
\* nothing.
WeekTotalIsOwnWeekSum ==
    /\ [](/\ Hours(300 + 120) = 700
          /\ \A u \in Users, day \in ViewDays :
                LET ws == get_current_week_bounds(day)[1]
                    total == WeekReport(entries, day, u).total_hours
                IN  /\ Nearest(total, 100 * OwnWeekMinutes(u, ws), 60)
                    /\ \A e \in entries :
                          (\/ e.end_time = NULL
                           \/ e.user # u
                           \/ e.work_date < ws \/ e.work_date > ws + 6)
                          => WeekReport(entries \ {e}, day, u).total_hours = total
          /\ \A u \in Users :
                FragmentResult(entries, weeks, now, u).total_hours
                   = WeekReport(entries, LocalDate(now), u).total_hours)
    /\ [][\A u \in Users :
             ServeWeek("my_timesheet", NULL, MyTimesheetResult(weeks, now, u))
             => /\ report'.view = "week"
                /\ Nearest(report'.total_hours, 100 * OwnWeekMinutes(u, Monday), 60)]_vars

\* C28: my_timesheet has shown a total above zero while an entry of the
\* manager or of another week with minutes on it is stored
WeekTotalShown ==
    /\ last.op = "my_timesheet"
    /\ report.view = "week"
    /\ report.total_hours > 0
    /\ \E e \in entries : /\ e.duration_minutes > 0
                          /\ e.user # "emp" \/ e.work_date > 6

\* the minutes of the entries dated start..end under project name, all of
\* them or the billable ones
NameMinutes(name, start, end, onlyBillable) ==
    MinutesOf(MaxId, {e \in entries : /\ start <= e.work_date /\ e.work_date <= end
                                      /\ ProjectName(projects, e) = name
                                      /\ onlyBillable => e.billable})

Parse2(text) == 100 * text[1] + text[2]

\* the hours of the details lines of entries 1..n under project name
RECURSIVE DetailHours(_, _, _)
DetailHours(n, lines, name) ==
    IF n = 0 THEN 0
    ELSE DetailHours(n - 1, lines, name)
         + (IF n \in DOMAIN lines /\ lines[n][2] = name THEN Parse2(lines[n][6]) ELSE 0)

\* C30: for the same user, date range and project filter, the export carries
\* the figures of the page: the lines of manager_reports' export and of
\* my_reports' summary export read as the rows on the page, each details line
\* carries the hours shown for its entry, and the hours of the details lines
\* of a project add up to the project's summary figure.
ExportCarriesScreenFigures ==
    \A range \in ReportRanges :
       /\ \A m \in {u \in Users : Role(u) = "manager"} :
             {[project |-> l[1], hours |-> Parse2(l[2]),
               billable_hours |-> Parse2(l[3]), percent_billable |-> Parse2(l[4])]
              : l \in ManagerReportsResult(entries, projects, m,
                                           range[1], range[2], TRUE).lines}
             = ManagerReportsResult(entries, projects, m,
                                    range[1], range[2], FALSE).rows
       /\ \A u \in {x \in Users : Role(x) = "employee"},
             filter \in ProjectIds \cup {NULL} :
             LET Ask(export) == MyReportsResult(entries, projects, u, range[1],
                                                range[2], filter, export)
                 page == Ask("")
                 summary == Ask("summary").lines
                 details == Ask("details").lines
             IN  /\ {[name |-> l[1], hours |-> Parse2(l[2])] : l \in summary}
                       = page.summary_rows
                 /\ DOMAIN details = DOMAIN page.hours
                 /\ \A id \in DOMAIN details :
                       Parse2(details[id][6]) = page.hours[id]
                 /\ \A row \in page.summary_rows :
                       DetailHours(MaxId, details, row.name) = row.hours

\* C30: the details export has been written with two lines of one project
\* that carry hours
TwoDetailLinesOfOneProject ==
    /\ last.op = "my_reports"
    /\ report.view = "my_reports_details_csv"
    /\ \E i \in DOMAIN report.lines, j \in DOMAIN report.lines :
          /\ i # j
          /\ report.lines[i][2] = report.lines[j][2]
          /\ Parse2(report.lines[i][6]) > 0
          /\ Parse2(report.lines[j][6]) > 0

(***************************************************************************)
(* Weeks and the calendar.                                                 *)
(***************************************************************************)
\* the dates a week is asked for: every day of weeks 0 .. MaxWeek
WeekDates == 0..(7 * MaxWeek + 6)

\* C31: every WeekSummary has a week_start that is a Monday, and for every
\* date d get_current_week_bounds(d) is (m, m + 6) with m a Monday and
\* m <= d <= m + 6.
WeekStartIsMonday ==
    /\ \A w \in weeks : w.week_start % 7 = 0
    /\ \A d \in WeekDates :
          LET b == get_current_week_bounds(d)
          IN  /\ b[1] % 7 = 0
              /\ b[2] = b[1] + 6
              /\ b[1] <= d /\ d <= b[2]

\* C31: a week was created on a day that is not a Monday
WeekCreatedMidweek ==
    /\ LocalDate(now) % 7 # 0
    /\ \E w \in weeks : w.week_start = LocalDate(now) - (LocalDate(now) % 7)

\* the days on which a dashboard is asked for: one in each of seven
\* successive years, which begin on seven different weekdays
CalendarDays == {y * (MaxYearDay + 1) + 1 : y \in 0..6}

\* the days of all the buckets, in the order of the buckets
RECURSIVE Flatten(_)
Flatten(buckets) ==
    IF buckets = <<>> THEN <<>> ELSE Head(buckets) \o Flatten(Tail(buckets))

\* the user's minutes on a date
DayMinutes(store, u, d) == SumMinutes({e \in store : e.user = u /\ e.work_date = d})

\* the calendar lists every date of the year once, ascending, with its hours
CalendarListsYear(store, u, today) ==
    LET days == Flatten(CalData(store, u, today))
    IN  /\ Len(days) = MaxYearDay + 1
        /\ \A i \in 1..Len(days) :
              /\ days[i].date = year_start(today) + i - 1
              /\ days[i].hours = DayMinutes(store, u, days[i].date)

\* C32: the calendar lists every date of the year exactly once in ascending
\* order with that date's total hours (0 if none), in buckets of at most 7
\* days of which every one but possibly the first begins on a Monday.
CalendarBucketsStartMonday ==
    \A u \in Users, today \in CalendarDays \cup {LocalDate(now)} :
        LET cal == CalData(entries, u, today)
        IN  /\ CalendarListsYear(entries, u, today)
            /\ \A i \in 1..Len(cal) :
                  /\ Len(cal[i]) <= 7
                  /\ i > 1 => Weekday(cal[i][1].date) = 0

(***************************************************************************)
(* The colour of a calendar cell.  The filter is given the hours of a day  *)
(* of cal_data, a count of sixtieths of an hour, or a value that float()   *)
(* rejects (NULL).                                                         *)
(***************************************************************************)
MaxSixtieths == 250

\* the values the filter is applied to: nothing, and 0 to a little over 4 hours
HourValues == {NULL} \cup 0..MaxSixtieths

\* the filter with the boundaries on the lower side
color_up_to(hours) ==
    IF hours = NULL THEN "#ebedf0"
    ELSE IF hours <= 0 THEN "#ebedf0"
    ELSE IF hours <= 2 * 60 THEN "#9be9a8"
    ELSE IF hours <= 4 * 60 THEN "#40c463"
    ELSE "#30a14e"

\* float(hours) fails: light grey; hours <= 0: light grey; hours < 2: light
\* green; hours < 4: medium green; otherwise dark green
color_from_hours(hours) ==
    IF hours = NULL THEN "#ebedf0"
    ELSE IF hours <= 0 THEN "#ebedf0"
    ELSE IF hours < 2 * 60 THEN "#9be9a8"
    ELSE IF hours < 4 * 60 THEN "#40c463"
    ELSE "#30a14e"

\* a cell of the calendar is rendered
ColourCell ==
    \E hours \in HourValues :
        /\ report' = [view |-> "cell", hours |-> hours, color |-> color_from_hours(hours)]
        /\ UNCHANGED <<entries, nextId, now, last, weeks, pc, catalog>>

SpecColour == Init /\ [][ColourCell]_vars

\* the bands of the calendar
Neutral == "#ebedf0"
Light == "#9be9a8"
Medium == "#40c463"
Dark == "#30a14e"

\* C33: a day's hours h map to exactly one band: neutral when h = 0, light
\* when 0 < h < 2, medium when 2 <= h < 4, dark when h >= 4.
ColourBands ==
    (report.view = "cell" /\ report.hours # NULL) =>
        LET h == report.hours
        IN  /\ report.color \in {Neutral, Light, Medium, Dark}
            /\ (report.color = Neutral) <=> (h = 0)
            /\ (report.color = Light) <=> (0 < h /\ h < 2 * 60)
            /\ (report.color = Medium) <=> (2 * 60 <= h /\ h < 4 * 60)
            /\ (report.color = Dark) <=> (h >= 4 * 60)

\* C33: a day of exactly 4 hours was rendered dark
FourHoursDark ==
    /\ report.view = "cell"
    /\ report.hours = 4 * 60
    /\ report.color = Dark

(* Running timers. *)
\* C34: every stored entry with a null end_time has a non-null start_time,
\* after any sequence of timer starts, timer stops and form saves.
RunningEntryHasStart ==
    \A e \in entries : e.end_time = NULL => e.start_time # NULL

\* the closed entries of user u dated as instant t whose interval holds t
ClosedAround(store, u, t) ==
    {c \in store : /\ c.user = u
                   /\ c.work_date = LocalDate(t)
                   /\ c.start_time # NULL /\ c.end_time # NULL
                   /\ c.start_time <= t /\ t <= c.end_time}

\* C35: start_time_entry creates no entry and changes none when the user has
\* a closed entry of today whose interval holds the current instant, and so
\* an entry it creates never begins inside a closed entry of that user and day.
EmployeeStartOutsideClosed ==
    [][\A u \in Users, t \in ClockInstants :
          Serve("start_time_entry", NULL, t, StartResult(entries, t, nextId, u))
          => /\ ClosedAround(entries, u, t) # {}
                => entries' = entries /\ last'.errors # {}
             /\ \A e \in entries' \ entries :
                   /\ e.user = u
                   /\ ClosedAround(entries, u, e.start_time) = {}]_vars

\* C35: an employee's timer start was refused on account of a closed entry
\* of today around the current instant
StartRefusedInsideClosed ==
    /\ last.op = "start_time_entry"
    /\ last.errors = {"OverlappingToday"}
    /\ ClosedAround(entries, "emp", now) # {}

(* The manager's handlers against the employee's. *)
\* the store with the entries of the two users exchanged
Exchange(store) ==
    {[e EXCEPT !.user = IF e.user = "mgr" THEN "emp" ELSE "mgr"] : e \in store}

\* result r of a manager's handler and result q of the employee's handler on
\* the exchanged store agree: both accept or both reject, same entries left
SameOutcome(r, q) ==
    /\ (r.errors = {}) <=> (q.errors = {})
    /\ r.store = Exchange(q.store)

SameOutcomes(R, Q) ==
    /\ \A r \in R : \E q \in Q : SameOutcome(r, q)
    /\ \A q \in Q : \E r \in R : SameOutcome(r, q)

StartsAgree ==
    \A t \in Readings :
        SameOutcome(ManagerStartResult(entries, t, nextId, "mgr"),
                    StartResult(Exchange(entries), t, nextId, "emp"))

StopsAgree ==
    \A t \in Readings, id \in Ids :
        SameOutcome(ManagerStopResult(entries, t, "mgr", id),
                    StopResult(Exchange(entries), t, "emp", id))

SavesAgree ==
    \A pk \in Ids \cup {NULL}, wd \in {0}, st \in TimesOfDay \cup {NULL},
       et \in TimesOfDay \cup {NULL}, br \in Breaks :
        SameOutcomes(AddEditResults(entries, now, nextId, "manager", "mgr",
                                    pk, wd, st, et, br),
                     AddEditResults(Exchange(entries), now, nextId, "employee", "emp",
                                    pk, wd, st, et, br))

\* C36: on the manager's own entries manager_start_time_entry,
\* manager_stop_time_entry and manager_add_edit_entry accept or reject
\* exactly when start_time_entry, stop_time_entry and add_edit_entry do on
\* the same entries and clock, and leave the same entries.
ManagerHandlersEquivalent ==
    StartsAgree /\ StopsAgree /\ SavesAgree

(* The per-user reports against manager_reports. *)
\* the page of the per-user report of user u
OwnReportPage(u, range, filter) ==
    IF Role(u) = "manager"
    THEN ManagerMyReportsResult(entries, projects, u, range[1], range[2], filter, "")
    ELSE MyReportsResult(entries, projects, u, range[1], range[2], filter, "")

\* C37: in my_reports and manager_my_reports the hours of each project row
\* are the project's total duration_minutes / 60 rounded to 2 decimals, the
\* figure manager_reports computes for the same entries.
ProjectRowIsRoundedTotal ==
    \A u \in Users, range \in ReportRanges, filter \in ProjectIds \cup {NULL} :
        LET S == MyReportEntries(entries, u, range[1], range[2], filter)
        IN  \A r \in OwnReportPage(u, range, filter).summary_rows :
               r.hours = ReportRow(r.name,
                                   SumMinutes({e \in S : ProjectName(projects, e) = r.name}),
                                   0).hours
====
